---------------------------- MODULE Spec2Model ----------------------------
(***************************************************************************)
(* Model of the MCP command-line client: the exchange layer                *)
(* (messages/send_message.py), its callers (messages/tools.py, ping.py,    *)
(* resources.py, prompts.py), the handshake                                *)
(* (messages/send_initialize_message.py), the session driver (main.py)     *)
(* and the tool-orchestration loop (chat_handler.py, tools_handler.py).    *)
(*                                                                         *)
(* The client is one flow of control (pc).  The remote side and the        *)
(* transport are the environment: it puts envelopes or exception objects   *)
(* on the inbound stream at any moment and may end the stream.  A wait     *)
(* under anyio.fail_after times out only while nothing is buffered: an     *)
(* item that is already buffered is received without suspending.  Writes   *)
(* to the outbound stream are taken to succeed (the stream pair is owned   *)
(* by stdio_client for the whole session).                                 *)
(***************************************************************************)
EXTENDS Integers, Sequences, FiniteSets, TLC

VARIABLES
    pc,         \* position of the client's flow of control
    inbound,    \* read_stream: items sent by the remote and not yet received
    closed,     \* read_stream ends (EndOfStream) once inbound is drained
    produced,   \* number of items the remote has put on read_stream
    outbound,   \* every envelope written to write_stream, in order
    caller,     \* the function that called send_message
    sm,         \* locals of the running send_message call
    smOut,      \* how the last send_message call ended
    attempts,   \* how each finished attempt of the send_message call ended
    lastRecv,   \* the item the send_message call received last, if any
    sleeps,     \* number of anyio.sleep(2) calls of the running send_message
    hsOut,      \* how send_initialize ended: main's init_result
    hsRead,     \* the items send_initialize has received, in order
    hsEnd,      \* which branch of send_initialize produced its result
    command,    \* main's `command` argument (None: interactive mode)
    cmd,        \* the command handle_command is running
    cmds,       \* number of commands read in interactive mode
    site,       \* the function that called the send_* wrapper
    callOut,    \* how the last send_* wrapper ended
    printed,    \* what handle_command / main printed last
    should_continue, \* the value handle_command returned last
    conversation_history, \* handle_chat_mode's list of turns
    openai_tools, \* the tool schema handed to the completion interface
    completion, \* the last result of client.create_completion, if any
    pending,    \* the tool calls of the round not yet handled
    tcall,      \* tool_name and tool_args of the running handle_tool_call
    rounds,     \* create_completion calls of the running process_conversation
    completions, \* create_completion calls of the chat
    messages,   \* the messages argument of the last create_completion call
    tasks       \* the send_message calls of concurrent callers, by caller

envVars == <<inbound, closed, produced>>
smVars == <<sm, smOut, attempts, lastRecv, sleeps>>
hsVars == <<hsOut, hsRead, hsEnd>>
mainVars == <<command, cmd, cmds, site, callOut, printed, should_continue>>
chatVars == <<conversation_history, openai_tools, completion, pending, tcall,
              rounds, completions, messages, tasks>>
\* everything send_message and the environment do not touch
restVars == <<hsVars, mainVars, chatVars>>
vars == <<pc, inbound, closed, produced, outbound, caller, sm, smOut,
          attempts, lastRecv, sleeps, hsOut, hsRead, hsEnd, command, cmd,
          cmds, site, callOut, printed, should_continue,
          conversation_history, openai_tools, completion, pending, tcall,
          rounds, completions, messages, tasks>>

----------------------------------------------------------------------------
(* Bounds of the model *)

\* largest retry budget a direct send_message call is tried with
MaxRetries == 3
\* number of items the remote puts on the inbound stream in one run
MaxInbound == 3
\* number of commands read in interactive mode
MaxCommands == 1
\* number of items the remote puts on the inbound stream during one chat
MaxChatInbound == 2
\* number of completions requested in one chat
MaxCompletions == 2
\* number of content blocks in a tool result that is formatted
MaxBlocks == 3

(* Constants of the program *)

\* send_message(retries=3)
DefaultRetries == 3
\* send_message(timeout=5)
DefaultTimeout == 5
\* anyio.sleep(2) between attempts
BackoffDelay == 2

----------------------------------------------------------------------------
(* Values *)

\* Python None and a present value of an Optional field
None == <<>>
Some(x) == <<x>>

\* the empty dict {}
EmptyDict == [k \in {} |-> TRUE]

\* JSONRPCMessage(id=..., method=..., params=..., result=..., error=...)
JSONRPCMessage(idv, method, params, result, error) ==
    [kind |-> "msg", jsonrpc |-> "2.0", id |-> idv, method |-> method,
     params |-> params, result |-> result, error |-> error]

\* an exception object: one the transport put on the stream, or TimeoutError
ExceptionObj(name) == [kind |-> "exc", name |-> name]
TimeoutError == ExceptionObj("TimeoutError")

\* isinstance(response, Exception)
IsException(x) == x.kind = "exc"

\* JSONRPCMessage.model_dump(): the dict of the envelope's fields
model_dump(m) ==
    [jsonrpc |-> m.jsonrpc, id |-> m.id, method |-> m.method,
     params |-> m.params, result |-> m.result, error |-> m.error]

\* `message_id or method`: None and "" are falsy
IdOrMethod(message_id, method) ==
    IF message_id # None /\ message_id[1] # "" THEN message_id ELSE Some(method)

\* outcome records of a call
NoOutcome == [kind |-> "none", val |-> None, err |-> None]
Returned(v) == [kind |-> "return", val |-> v, err |-> None]
Raised(e) == [kind |-> "raise", val |-> None, err |-> Some(e)]

----------------------------------------------------------------------------
(* send_message *)

\* the locals of send_message at entry (line 36 builds the message once)
SmEntry(method, params, message_id, retries) ==
    [method |-> method, params |-> params, message_id |-> message_id,
     timeout |-> DefaultTimeout, retries |-> retries, attempt |-> 1,
     message |-> JSONRPCMessage(IdOrMethod(message_id, method),
                                Some(method), params, None, None)]

NoCall ==
    [method |-> "", params |-> None, message_id |-> None,
     timeout |-> DefaultTimeout, retries |-> 0, attempt |-> 0,
     message |-> JSONRPCMessage(None, None, None, None, None)]

\* line 42: await write_stream.send(message)
SmSend ==
    /\ pc = "sm_send"
    /\ outbound' = Append(outbound, sm.message)
    /\ pc' = "sm_wait"
    /\ UNCHANGED <<envVars, caller, sm, smOut, attempts, lastRecv, sleeps, restVars>>

\* variant: whatever ended the attempt, exhaustion is reported as a timeout
SmAttemptFailed_AlwaysTimeout(e, how) ==
    /\ attempts' = Append(attempts, how)
    /\ IF sm.attempt = sm.retries
          THEN /\ smOut' = Raised(TimeoutError)
               /\ pc' = "sm_done"
          ELSE /\ smOut' = smOut
               /\ pc' = "sm_sleep"

\* an attempt that ended with an exception e (lines 54-63): re-raise on the
\* last attempt, otherwise fall through to the sleep
SmAttemptFailed(e, how) ==
    /\ attempts' = Append(attempts, how)
    /\ IF sm.attempt = sm.retries
          THEN /\ smOut' = Raised(e)
               /\ pc' = "sm_done"
          ELSE /\ smOut' = smOut
               /\ pc' = "sm_sleep"

\* lines 46-52: the first item received decides the attempt
SmReceive ==
    /\ pc = "sm_wait"
    /\ inbound # <<>>
    /\ LET response == Head(inbound) IN
         /\ inbound' = Tail(inbound)
         /\ lastRecv' = Some(response)
         /\ IF ~IsException(response)
               THEN /\ smOut' = Returned(Some(model_dump(response)))
                    /\ pc' = "sm_done"
                    /\ attempts' = Append(attempts, "response")
               ELSE SmAttemptFailed(response, "transport")
    /\ UNCHANGED <<closed, produced, outbound, caller, sm, sleeps, restVars>>

\* variant: the timeout handler lacks the re-raise of line 58
SmTimeout_NoRaise ==
    /\ pc = "sm_wait"
    /\ inbound = <<>>
    /\ ~closed
    /\ attempts' = Append(attempts, "timeout")
    /\ pc' = "sm_sleep"
    /\ UNCHANGED <<envVars, outbound, caller, sm, smOut, lastRecv, sleeps, restVars>>

\* variant: the wait of an attempt has no deadline
SmTimeout_NoDeadline ==
    /\ pc = "sm_wait"
    /\ inbound = <<>>
    /\ ~closed
    /\ UNCHANGED vars

\* line 45 / 54-58: fail_after(timeout) expires while nothing is buffered
SmTimeout ==
    /\ pc = "sm_wait"
    /\ inbound = <<>>
    /\ ~closed
    /\ SmAttemptFailed(TimeoutError, "timeout")
    /\ UNCHANGED <<envVars, outbound, caller, sm, lastRecv, sleeps, restVars>>

\* line 46: the async for ends when the stream ends; no exception is raised
\* and control falls through to the sleep of line 66
SmStreamEnd ==
    /\ pc = "sm_wait"
    /\ inbound = <<>>
    /\ closed
    /\ attempts' = Append(attempts, "eof")
    /\ pc' = "sm_sleep"
    /\ UNCHANGED <<envVars, outbound, caller, sm, smOut, lastRecv, sleeps, restVars>>

\* variant: the retry waits again without writing the Request again
SmSleep_NoResend ==
    /\ pc = "sm_sleep"
    /\ sleeps' = sleeps + 1
    /\ IF sm.attempt < sm.retries
          THEN /\ sm' = [sm EXCEPT !.attempt = @ + 1]
               /\ pc' = "sm_wait"
               /\ smOut' = smOut
          ELSE /\ sm' = sm
               /\ pc' = "sm_done"
               /\ smOut' = Returned(None)
    /\ UNCHANGED <<envVars, outbound, caller, attempts, lastRecv, restVars>>

\* line 66, then the next iteration of line 38; when the loop is exhausted
\* the function ends without a return statement
SmSleep ==
    /\ pc = "sm_sleep"
    /\ sleeps' = sleeps + 1
    /\ IF sm.attempt < sm.retries
          THEN /\ sm' = [sm EXCEPT !.attempt = @ + 1]
               /\ pc' = "sm_send"
               /\ smOut' = smOut
          ELSE /\ sm' = sm
               /\ pc' = "sm_done"
               /\ smOut' = Returned(None)
    /\ UNCHANGED <<envVars, outbound, caller, attempts, lastRecv, restVars>>

----------------------------------------------------------------------------
(* The environment: the remote side and the transport *)

\* The client looks at read_stream only while it waits for a reply, and an
\* item stays buffered until then: what the remote does while the client is
\* busy elsewhere is seen by the client as done just before its next
\* request.  So the environment acts only at these positions.
Listening == pc \in {"main_start", "hs_wait", "sm_send", "sm_wait"}

RemotePut(item, quota) ==
    /\ Listening
    /\ ~closed
    /\ produced < quota
    /\ inbound' = Append(inbound, item)
    /\ produced' = produced + 1
    /\ UNCHANGED <<pc, closed, outbound, caller, smVars, restVars>>

\* the transport closes its end of read_stream
RemoteClose ==
    /\ Listening
    /\ ~closed
    /\ closed' = TRUE
    /\ UNCHANGED <<pc, inbound, produced, outbound, caller, smVars, restVars>>

OkResult == [ok |-> TRUE]
RpcError == [code |-> -32601, message |-> "Method not found"]

\* what the remote may send while a request with id idv is (or was) out
ExchangeItems(idv) ==
    { JSONRPCMessage(idv, None, None, Some(OkResult), None),
      JSONRPCMessage(Some("other-1"), None, None, Some(OkResult), None),
      JSONRPCMessage(None, Some("notifications/message"), Some(EmptyDict),
                     None, None),
      JSONRPCMessage(idv, None, None, None, Some(RpcError)),
      ExceptionObj("ConnectionError") }

RemoteSendSM ==
    \E item \in ExchangeItems(sm.message.id) : RemotePut(item, MaxInbound)

----------------------------------------------------------------------------
(* A single call of send_message by an arbitrary caller *)

\* chat mode has not been entered
NoChat ==
    /\ conversation_history = <<>>
    /\ openai_tools = <<>>
    /\ completion = None
    /\ pending = <<>>
    /\ tcall = None
    /\ rounds = 0
    /\ completions = 0
    /\ messages = <<>>
    /\ tasks = <<>>

\* no session is running: send_message is called on a bare stream pair
NoSession ==
    /\ hsOut = NoOutcome
    /\ hsRead = <<>>
    /\ hsEnd = "none"
    /\ command = None
    /\ cmd = ""
    /\ cmds = 0
    /\ site = "none"
    /\ callOut = NoOutcome
    /\ printed = "none"
    /\ should_continue = TRUE
    /\ NoChat

Methods == {"ping", "tools/call"}
MessageIds == {None, Some("req-7")}
ParamsSet == {None, Some([name |-> "echo"])}

InitSM ==
    /\ pc = "sm_send"
    /\ inbound = <<>>
    /\ closed = FALSE
    /\ produced = 0
    /\ outbound = <<>>
    /\ caller = "direct"
    /\ \E method \in Methods, message_id \in MessageIds,
          params \in ParamsSet, retries \in 1..MaxRetries :
            sm = SmEntry(method, params, message_id, retries)
    /\ smOut = NoOutcome
    /\ attempts = <<>>
    /\ lastRecv = None
    /\ sleeps = 0
    /\ NoSession

NextSM ==
    \/ SmSend
    \/ SmReceive
    \/ SmTimeout
    \/ SmStreamEnd
    \/ SmSleep
    \/ RemoteSendSM
    \/ RemoteClose

SpecSM == InitSM /\ [][NextSM]_vars

----------------------------------------------------------------------------
(* send_initialize *)

\* truth value of an Optional[dict]: None and {} are falsy
Truthy(opt) == opt # None /\ DOMAIN opt[1] # {}

\* InitializeParams(...).model_dump()
InitParams ==
    [protocolVersion |-> "2024-11-05",
     capabilities |-> [roots |-> [listChanged |-> TRUE],
                       sampling |-> EmptyDict],
     clientInfo |-> [name |-> "PythonMCPClient", version |-> "1.0.0"]]

init_message ==
    JSONRPCMessage(Some("init-1"), Some("initialize"), Some(InitParams),
                   None, None)

initialized_notify ==
    JSONRPCMessage(None, Some("notifications/initialized"), Some(EmptyDict),
                   None, None)

\* InitializeResult.model_validate succeeds: the three required fields are
\* present and serverInfo has its two required fields (every field of
\* ServerCapabilities has a default)
InitializeResultValid(r) ==
    /\ {"protocolVersion", "capabilities", "serverInfo"} \subseteq DOMAIN r
    /\ {"name", "version"} \subseteq DOMAIN r.serverInfo

\* ServerCapabilities: logging defaults to {}, the others to None
ServerCapabilities(c) ==
    [logging |-> IF "logging" \in DOMAIN c THEN c.logging ELSE EmptyDict,
     prompts |-> IF "prompts" \in DOMAIN c THEN Some(c.prompts) ELSE None,
     resources |-> IF "resources" \in DOMAIN c THEN Some(c.resources)
                   ELSE None,
     tools |-> IF "tools" \in DOMAIN c THEN Some(c.tools) ELSE None]

\* the InitializeResult object built from a valid result
model_validate(r) ==
    [protocolVersion |-> r.protocolVersion,
     capabilities |-> ServerCapabilities(r.capabilities),
     serverInfo |-> [name |-> r.serverInfo.name,
                     version |-> r.serverInfo.version]]

\* lines 52-61: build the initialize request and write it
HsSend ==
    /\ pc = "main_start"
    /\ outbound' = Append(outbound, init_message)
    /\ pc' = "hs_wait"
    /\ UNCHANGED <<envVars, caller, smVars, hsVars, mainVars,
                   chatVars>>

\* variant: only an envelope whose id is init-1 may decide the handshake
HsReceive_ChecksId ==
    /\ pc = "hs_wait"
    /\ inbound # <<>>
    /\ LET response == Head(inbound) IN
         /\ inbound' = Tail(inbound)
         /\ hsRead' = Append(hsRead, response)
         /\ IF IsException(response)
               THEN UNCHANGED <<pc, hsOut, hsEnd>>
               ELSE IF response.id # Some("init-1")
               THEN UNCHANGED <<pc, hsOut, hsEnd>>
               ELSE IF Truthy(response.error)
               THEN /\ hsOut' = Returned(None)
                    /\ hsEnd' = "error"
                    /\ pc' = "hs_done"
               ELSE IF Truthy(response.result)
               THEN IF InitializeResultValid(response.result[1])
                       THEN /\ hsOut' = hsOut
                            /\ hsEnd' = "validated"
                            /\ pc' = "hs_notify"
                       ELSE /\ hsOut' = Returned(None)
                            /\ hsEnd' = "invalid"
                            /\ pc' = "hs_done"
               ELSE UNCHANGED <<pc, hsOut, hsEnd>>
    /\ UNCHANGED <<closed, produced, outbound, caller, smVars, mainVars,
                   chatVars>>

\* lines 67-103: one item of the `async for`; exceptions and envelopes with
\* neither a truthy error nor a truthy result are passed over
HsReceive ==
    /\ pc = "hs_wait"
    /\ inbound # <<>>
    /\ LET response == Head(inbound) IN
         /\ inbound' = Tail(inbound)
         /\ hsRead' = Append(hsRead, response)
         /\ IF IsException(response)
               THEN UNCHANGED <<pc, hsOut, hsEnd>>
               ELSE IF Truthy(response.error)
               THEN /\ hsOut' = Returned(None)
                    /\ hsEnd' = "error"
                    /\ pc' = "hs_done"
               ELSE IF Truthy(response.result)
               THEN IF InitializeResultValid(response.result[1])
                       THEN /\ hsOut' = hsOut
                            /\ hsEnd' = "validated"
                            /\ pc' = "hs_notify"
                       ELSE /\ hsOut' = Returned(None)
                            /\ hsEnd' = "invalid"
                            /\ pc' = "hs_done"
               ELSE UNCHANGED <<pc, hsOut, hsEnd>>
    /\ UNCHANGED <<closed, produced, outbound, caller, smVars, mainVars,
                   chatVars>>

\* lines 89-99: write the initialized notification, return the result
HsNotify ==
    /\ pc = "hs_notify"
    /\ outbound' = Append(outbound, initialized_notify)
    /\ hsOut' = Returned(Some(model_validate(hsRead[Len(hsRead)].result[1])))
    /\ hsEnd' = "ok"
    /\ pc' = "hs_done"
    /\ UNCHANGED <<envVars, caller, smVars, hsRead, mainVars,
                   chatVars>>

\* variant: a timed-out handshake writes the initialize request once more
HsTimeout_Resend ==
    /\ pc = "hs_wait"
    /\ inbound = <<>>
    /\ ~closed
    /\ IF Len(outbound) < 2
          THEN /\ outbound' = Append(outbound, init_message)
               /\ UNCHANGED <<pc, hsOut, hsEnd>>
          ELSE /\ hsOut' = Returned(None)
               /\ hsEnd' = "timeout"
               /\ pc' = "hs_done"
               /\ outbound' = outbound
    /\ UNCHANGED <<envVars, caller, smVars, hsRead, mainVars,
                   chatVars>>

\* lines 65, 105-108: fail_after(5) expires while nothing is buffered
HsTimeout ==
    /\ pc = "hs_wait"
    /\ inbound = <<>>
    /\ ~closed
    /\ hsOut' = Returned(None)
    /\ hsEnd' = "timeout"
    /\ pc' = "hs_done"
    /\ UNCHANGED <<envVars, outbound, caller, smVars, hsRead, mainVars,
                   chatVars>>

\* lines 67, 114-118: the stream ended, the loop is left without a result
HsStreamEnd ==
    /\ pc = "hs_wait"
    /\ inbound = <<>>
    /\ closed
    /\ hsOut' = Returned(None)
    /\ hsEnd' = "eof"
    /\ pc' = "hs_done"
    /\ UNCHANGED <<envVars, outbound, caller, smVars, hsRead, mainVars,
                   chatVars>>

----------------------------------------------------------------------------
(* The send_* wrappers of send_message *)

AttributeError == ExceptionObj("AttributeError")

\* the dict send_call_tool returns for a failed exchange; str(e) is the name
ErrorResult(e) == [isError |-> TRUE, error |-> e.name]

\* the wrapper and the request of each exchange command
WrapperOf(c) ==
    CASE c = "ping" -> "send_ping"
      [] c = "list-tools" -> "send_tools_list"
      [] c = "list-resources" -> "send_resources_list"
      [] c = "list-prompts" -> "send_prompts_list"
      [] c = "call-tool" -> "send_call_tool"

MethodOf(wrapper) ==
    CASE wrapper = "send_ping" -> "ping"
      [] wrapper = "send_tools_list" -> "tools/list"
      [] wrapper = "send_resources_list" -> "resources/list"
      [] wrapper = "send_prompts_list" -> "prompts/list"
      [] wrapper = "send_call_tool" -> "tools/call"

MessageIdOf(wrapper) == IF wrapper = "send_ping" THEN Some("ping-1") ELSE None

\* the wrapper calls send_message with the default timeout and retries
CallSendMessage(wrapper, from, params) ==
    /\ caller' = wrapper
    /\ site' = from
    /\ sm' = SmEntry(MethodOf(wrapper), params, MessageIdOf(wrapper),
                     DefaultRetries)
    /\ smOut' = NoOutcome
    /\ attempts' = <<>>
    /\ lastRecv' = None
    /\ sleeps' = 0
    /\ callOut' = NoOutcome
    /\ pc' = "sm_send"

\* the wrapper has returned to its caller and that caller is done with the
\* result: the locals of both calls are gone
ResetCall ==
    /\ caller' = "none"
    /\ site' = "none"
    /\ sm' = NoCall
    /\ smOut' = NoOutcome
    /\ attempts' = <<>>
    /\ lastRecv' = None
    /\ sleeps' = 0
    /\ callOut' = NoOutcome

\* what the wrapper makes of the way send_message ended.  model_dump always
\* has the key "result", so response.get("result", default) is its value.
WrapperOutcome(wrapper, out) ==
    CASE wrapper = "send_ping" ->
            IF out.kind = "raise" THEN out
            ELSE Returned(Some(out.val # None))
      [] wrapper = "send_call_tool" ->
            IF out.kind = "raise" THEN Returned(Some(ErrorResult(out.err[1])))
            ELSE IF out.val = None
                 THEN Returned(Some(ErrorResult(AttributeError)))
            ELSE Returned(out.val[1].result)
      [] OTHER ->
            IF out.kind = "raise" THEN out
            ELSE IF out.val = None THEN Raised(AttributeError)
            ELSE Returned(out.val[1].result)

\* the wrapper's statements after `await send_message(...)`
WrapperReturn ==
    /\ pc = "sm_done"
    /\ caller # "direct"
    /\ callOut' = WrapperOutcome(caller, smOut)
    /\ pc' = "call_ret"
    /\ UNCHANGED <<envVars, outbound, caller, smVars, hsVars, command, cmd,
                   cmds, site, printed, should_continue,
                   chatVars>>

----------------------------------------------------------------------------
(* main, interactive_mode and handle_command *)

\* the choices argparse admits for the positional command
CliCommands == {"ping", "list-tools", "list-resources", "list-prompts"}

ExchangeCommands == {"ping", "list-tools", "list-resources", "list-prompts"}

\* what the user may type at the prompt
Commands == ExchangeCommands \cup {"call-tool", "quit", "exit", "help"}

\* variant: main goes on whatever send_initialize returned
MainAfterInit_NoGate ==
    /\ pc = "hs_done"
    /\ IF command # None
          THEN /\ cmd' = command[1]
               /\ pc' = "dispatch"
          ELSE /\ cmd' = cmd
               /\ pc' = "prompt"
    /\ UNCHANGED <<envVars, outbound, caller, smVars, hsVars, command, cmds,
                   site, callOut, printed, should_continue,
                   chatVars>>

\* main lines 150-160: stop when the handshake returned None
MainAfterInit ==
    /\ pc = "hs_done"
    /\ IF hsOut.val = None
          THEN /\ printed' = "Server initialization failed"
               /\ pc' = "exit"
               /\ cmd' = cmd
          ELSE /\ printed' = printed
               /\ IF command # None
                     THEN /\ cmd' = command[1]
                          /\ pc' = "dispatch"
                     ELSE /\ cmd' = cmd
                          /\ pc' = "prompt"
    /\ UNCHANGED <<envVars, outbound, caller, smVars, hsVars, command, cmds,
                   site, callOut, should_continue,
                   chatVars>>

\* interactive_mode lines 122-126: a non-empty command was typed
GetInput ==
    /\ pc = "prompt"
    /\ cmds < MaxCommands
    /\ \E c \in Commands : cmd' = c
    /\ cmds' = cmds + 1
    /\ pc' = "dispatch"
    /\ UNCHANGED <<envVars, outbound, caller, smVars, hsVars, command, site,
                   callOut, printed, should_continue,
                   chatVars>>

\* interactive_mode lines 132-133: end of input
InputEOF ==
    /\ pc = "prompt"
    /\ pc' = "exit"
    /\ UNCHANGED <<envVars, outbound, caller, smVars, hsVars, mainVars,
                   chatVars>>

\* handle_command lines 29-38, 59-68: the commands that are one exchange
CmdExchange ==
    /\ pc = "dispatch"
    /\ cmd \in ExchangeCommands
    /\ CallSendMessage(WrapperOf(cmd), "handle_command", None)
    /\ UNCHANGED <<envVars, outbound, hsVars, command, cmd, cmds, printed,
                   should_continue,
                   chatVars>>

ToolNames == {"", "echo"}
\* the arguments typed: text that eval rejects, or a dict
ArgumentInputs == {None, Some([x |-> 1])}

\* handle_command lines 39-54
CmdCallTool ==
    /\ pc = "dispatch"
    /\ cmd = "call-tool"
    /\ \E tool_name \in ToolNames, arguments \in ArgumentInputs :
         IF tool_name = ""
            THEN /\ printed' = "Tool name cannot be empty."
                 /\ should_continue' = TRUE
                 /\ pc' = "cmd_ret"
                 /\ UNCHANGED <<caller, smVars, site, callOut>>
         ELSE IF arguments = None
            THEN /\ printed' = "Invalid arguments format"
                 /\ should_continue' = TRUE
                 /\ pc' = "cmd_ret"
                 /\ UNCHANGED <<caller, smVars, site, callOut>>
         ELSE /\ CallSendMessage("send_call_tool", "handle_command",
                     Some([name |-> tool_name, arguments |-> arguments[1]]))
              /\ UNCHANGED <<printed, should_continue>>
    /\ UNCHANGED <<envVars, outbound, hsVars, command, cmd, cmds,
                   chatVars>>

\* handle_command lines 79-103: commands without an exchange
CmdLocal ==
    /\ pc = "dispatch"
    /\ cmd \in {"quit", "exit", "help"}
    /\ IF cmd \in {"quit", "exit"}
          THEN /\ printed' = "Goodbye!"
               /\ should_continue' = FALSE
          ELSE /\ printed' = "Available commands"
               /\ should_continue' = TRUE
    /\ pc' = "cmd_ret"
    /\ UNCHANGED <<envVars, outbound, caller, smVars, hsVars, command, cmd,
                   cmds, site, callOut,
                   chatVars>>

\* dict.get(key) of an Optional[dict] value; None has no attribute get
HasKey(d, k) == k \in DOMAIN d

\* what handle_command prints once the wrapper is back (lines 33, 38, 55-58,
\* 63, 68) or its exception is caught (lines 104-105)
CommandReport(c, out) ==
    IF out.kind = "raise" THEN "Error executing command"
    ELSE CASE c = "ping" ->
                IF out.val[1] THEN "Server is up and running"
                ELSE "Server ping failed"
           [] c = "call-tool" ->
                IF out.val = None THEN "Error executing command"
                ELSE IF HasKey(out.val[1], "isError") /\ out.val[1].isError
                     THEN "Error calling tool"
                ELSE "Tool Response"
           [] OTHER -> "List"

\* handle_command after the wrapper returned or raised; line 107
CommandFinish ==
    /\ pc = "call_ret"
    /\ site = "handle_command"
    /\ printed' = CommandReport(cmd, callOut)
    /\ should_continue' = TRUE
    /\ pc' = "cmd_ret"
    /\ ResetCall
    /\ UNCHANGED <<envVars, outbound, hsVars, command, cmd, cmds, chatVars>>

\* main lines 155-164 and interactive_mode lines 126-128
CommandReturn ==
    /\ pc = "cmd_ret"
    /\ pc' = IF command = None /\ should_continue THEN "prompt" ELSE "exit"
    /\ UNCHANGED <<envVars, outbound, caller, smVars, hsVars, mainVars,
                   chatVars>>

----------------------------------------------------------------------------
(* A session run by main *)

ValidInitResult ==
    [protocolVersion |-> "2024-11-05",
     capabilities |-> [tools |-> EmptyDict],
     serverInfo |-> [name |-> "server", version |-> "0.1"]]

NoServerInfoResult ==
    [protocolVersion |-> "2024-11-05",
     capabilities |-> [tools |-> EmptyDict]]

\* what the remote may send while the handshake is running
HandshakeItems ==
    { JSONRPCMessage(Some("init-1"), None, None, Some(ValidInitResult), None),
      JSONRPCMessage(Some("init-1"), None, None, Some(NoServerInfoResult),
                     None),
      JSONRPCMessage(Some("init-1"), None, None, Some(EmptyDict), None),
      JSONRPCMessage(Some("init-1"), None, None, None, Some(RpcError)),
      JSONRPCMessage(Some("other-7"), None, None, Some(ValidInitResult),
                     None),
      JSONRPCMessage(None, Some("notifications/message"), Some(EmptyDict),
                     None, None),
      ExceptionObj("ConnectionError") }

InHandshake == pc \in {"main_start", "hs_wait"}

RemoteSendHandshake ==
    /\ InHandshake
    /\ \E item \in HandshakeItems : RemotePut(item, MaxInbound)

RemoteSendExchange ==
    /\ ~InHandshake
    /\ \E item \in ExchangeItems(sm.message.id) : RemotePut(item, MaxInbound)

Init ==
    /\ pc = "main_start"
    /\ inbound = <<>>
    /\ closed = FALSE
    /\ produced = 0
    /\ outbound = <<>>
    /\ caller = "none"
    /\ sm = NoCall
    /\ smOut = NoOutcome
    /\ attempts = <<>>
    /\ lastRecv = None
    /\ sleeps = 0
    /\ hsOut = NoOutcome
    /\ hsRead = <<>>
    /\ hsEnd = "none"
    /\ command \in {None} \cup {Some(c) : c \in CliCommands}
    /\ cmd = ""
    /\ cmds = 0
    /\ site = "none"
    /\ callOut = NoOutcome
    /\ printed = "none"
    /\ should_continue = TRUE
    /\ NoChat

Next ==
    \/ HsSend
    \/ HsReceive
    \/ HsNotify
    \/ HsTimeout
    \/ HsStreamEnd
    \/ MainAfterInit
    \/ GetInput
    \/ InputEOF
    \/ CmdExchange
    \/ CmdCallTool
    \/ CmdLocal
    \/ SmSend
    \/ SmReceive
    \/ SmTimeout
    \/ SmStreamEnd
    \/ SmSleep
    \/ WrapperReturn
    \/ CommandFinish
    \/ CommandReturn
    \/ RemoteSendHandshake
    \/ RemoteSendExchange
    \/ RemoteClose

Spec == Init /\ [][Next]_vars

----------------------------------------------------------------------------
(* Chat mode: values and the pure functions of tools_handler.py *)

\* A text is a sequence of chunks: plain characters, or one occurrence of
\* the pattern <function=NAME>ARGS</function>
Plain(str) == [t |-> "plain", s |-> str]
Marker(name, args) == [t |-> "marker", name |-> name, args |-> args]

\* the JSON documents that occur, and what json.loads makes of them; any
\* other string raises JSONDecodeError
JsonTable ==
    ("{\"x\": 1}" :> [x |-> 1]) @@ ("{\"id\": 42}" :> [id |-> 42])
JsonDecodes(str) == str \in DOMAIN JsonTable
json_loads(str) == JsonTable[str]
json_dumps(d) == CHOOSE str \in DOMAIN JsonTable : JsonTable[str] = d

\* re.search(function_regex, response): the first marker of the text
FirstMarker(text) ==
    LET hits == {i \in 1..Len(text) : text[i].t = "marker"} IN
    IF hits = {} THEN None
    ELSE Some(text[CHOOSE i \in hits : \A j \in hits : i <= j])

\* variant: the scan goes on to the first marker whose ARGS decode
parse_tool_response_FirstDecodable(text) ==
    LET hits == {i \in 1..Len(text) :
                    text[i].t = "marker" /\ JsonDecodes(text[i].args)} IN
    IF hits = {} THEN None
    ELSE LET match == text[CHOOSE i \in hits : \A j \in hits : i <= j] IN
         Some([function |-> match.name, arguments |-> json_loads(match.args)])

\* parse_tool_response: None without a marker or when ARGS is not JSON
parse_tool_response(text) ==
    LET match == FirstMarker(text) IN
    IF match = None THEN None
    ELSE IF JsonDecodes(match[1].args)
         THEN Some([function |-> match[1].name,
                    arguments |-> json_loads(match[1].args)])
    ELSE None

\* a tool call of a completion.  A structured call has `function` with a
\* name and arguments that are a JSON string or a dict; any other object
\* has no `function`
StructuredCall(name, argType, args) ==
    [function |-> Some([name |-> name,
                        arguments |-> [type |-> argType, v |-> args]])]
TextualCall == [function |-> None]

\* turns of the conversation history
Turn(role, content) ==
    [role |-> role, content |-> content, name |-> None, tool_calls |-> <<>>,
     tool_call_id |-> None]

\* f"call_{tool_name}"
CallId(tool_name) == <<"call_", tool_name>>

AssistantCallTurn(tool_name, tool_args) ==
    [role |-> "assistant", content |-> None, name |-> None,
     tool_calls |-> << [id |-> CallId(tool_name), type |-> "function",
                        function |-> [name |-> tool_name,
                                      arguments |-> json_dumps(tool_args)]] >>,
     tool_call_id |-> None]

ToolTurn(tool_name, formatted) ==
    [role |-> "tool", content |-> Some(formatted), name |-> Some(tool_name),
     tool_calls |-> <<>>, tool_call_id |-> Some(CallId(tool_name))]

\* "\n".join(texts)
RECURSIVE JoinLines(_)
JoinLines(texts) ==
    IF texts = <<>> THEN <<>>
    ELSE IF Len(texts) = 1 THEN texts[1]
    ELSE texts[1] \o <<Plain("\n")>> \o JoinLines(Tail(texts))

\* the texts of the blocks with type == "text", in order; a text block
\* without a text yields "No content"
RECURSIVE TextsOf(_)
TextsOf(blocks) ==
    IF blocks = <<>> THEN <<>>
    ELSE LET b == blocks[1] IN
         IF "type" \in DOMAIN b /\ b.type = "text"
            THEN << IF "text" \in DOMAIN b THEN <<Plain(b.text)>>
                    ELSE <<Plain("No content")>> >> \o TextsOf(Tail(blocks))
         ELSE TextsOf(Tail(blocks))

\* a content value is a list of blocks or some other object with a repr
ListContent(blocks) == [list |-> blocks]
OtherContent(repr) == [repr |-> repr]

\* format_tool_response (lines 90-98)
format_tool_response(response_content) ==
    IF "list" \in DOMAIN response_content
       THEN JoinLines(TextsOf(response_content.list))
    ELSE <<Plain(response_content.repr)>>

\* how handle_tool_call resolves the name and arguments of a call (lines
\* 26-48).  The result says whether send_call_tool is reached.
ResolveToolCall(tool_call, history) ==
    IF tool_call.function # None
       THEN LET f == tool_call.function[1] IN
            IF f.arguments.type = "str"
               THEN IF JsonDecodes(f.arguments.v)
                       THEN [ok |-> TRUE, tool_name |-> f.name,
                             tool_args |-> json_loads(f.arguments.v)]
                    ELSE [ok |-> FALSE, why |-> "JSONDecodeError"]
            ELSE [ok |-> TRUE, tool_name |-> f.name,
                  tool_args |-> f.arguments.v]
    ELSE LET last_message == history[Len(history)].content IN
         IF last_message = None
            THEN [ok |-> FALSE, why |-> "TypeError"]
         ELSE LET parsed_tool == parse_tool_response(last_message[1]) IN
              IF parsed_tool = None
                 THEN [ok |-> FALSE, why |-> "unparsed"]
              ELSE [ok |-> TRUE, tool_name |-> parsed_tool[1].function,
                    tool_args |-> parsed_tool[1].arguments]


----------------------------------------------------------------------------
(* Chat mode: handle_chat_mode, process_conversation, handle_tool_call *)

\* a list of tool descriptors as the remote sends it: each entry is a dict
\* or some other object
DictEntry(d) == [dict |-> d]
EchoTool == [name |-> "echo", inputSchema |-> [type |-> "object"]]

\* fetch_tools lines 105-115: the tools, or None when they are not a list
\* of dicts.  tools_response is the dict send_tools_list returned.
fetch_tools(tools_response) ==
    LET tools == IF HasKey(tools_response, "tools") THEN tools_response.tools
                 ELSE ListContent(<<>>) IN
    IF ~HasKey(tools, "list") THEN None
    ELSE IF \E i \in 1..Len(tools.list) : ~HasKey(tools.list[i], "dict")
         THEN None
    ELSE Some([i \in 1..Len(tools.list) |-> tools.list[i].dict])

\* convert_to_openai_tools raises KeyError for a tool without "name"
ConvertRaises(tools) == \E i \in 1..Len(tools) : ~HasKey(tools[i], "name")

convert_to_openai_tools(tools) ==
    [i \in 1..Len(tools) |->
        [type |-> "function",
         function |-> [name |-> tools[i].name,
                       parameters |-> IF HasKey(tools[i], "inputSchema")
                                      THEN tools[i].inputSchema
                                      ELSE EmptyDict]]]

SystemPrompt == <<Plain("system prompt")>>

\* handle_command lines 69-78 and handle_chat_mode line 10: fetch the tools
CmdChat ==
    /\ pc = "dispatch"
    /\ cmd = "chat"
    /\ CallSendMessage("send_tools_list", "fetch_tools", None)
    /\ printed' = "Entering chat mode"
    /\ UNCHANGED <<envVars, outbound, hsVars, command, cmd, cmds,
                   should_continue, chatVars>>

\* handle_chat_mode ends and handle_command returns True (line 107)
LeaveChat(line) ==
    /\ printed' = line
    /\ should_continue' = TRUE
    /\ pc' = "cmd_ret"

\* fetch_tools after send_tools_list, then handle_chat_mode lines 12-29.
\* Creating the LLMClient raises when the provider is not configured.
ChatSetup ==
    /\ pc = "call_ret"
    /\ site = "fetch_tools"
    /\ IF callOut.kind = "raise" \/ callOut.val = None
          THEN /\ LeaveChat("Error in chat mode")
               /\ UNCHANGED <<conversation_history, openai_tools>>
          ELSE LET tools == fetch_tools(callOut.val[1]) IN
               IF tools = None \/ tools = Some(<<>>)
                  THEN /\ LeaveChat("No tools available. Exiting chat mode.")
                       /\ UNCHANGED <<conversation_history, openai_tools>>
               ELSE IF ConvertRaises(tools[1])
                  THEN /\ LeaveChat("Error in chat mode")
                       /\ UNCHANGED <<conversation_history, openai_tools>>
               ELSE \E clientOk \in BOOLEAN :
                      IF ~clientOk
                         THEN /\ LeaveChat("Error in chat mode")
                              /\ UNCHANGED <<conversation_history,
                                             openai_tools>>
                      ELSE /\ conversation_history' =
                                  <<Turn("system", Some(SystemPrompt))>>
                           /\ openai_tools' = convert_to_openai_tools(tools[1])
                           /\ printed' = "Entering chat mode. Type 'exit'"
                           /\ pc' = "chat_prompt"
                           /\ should_continue' = should_continue
    /\ ResetCall
    /\ UNCHANGED <<envVars, outbound, hsVars, command, cmd, cmds, completion,
                   pending, tcall, rounds, completions, messages, tasks>>

\* what the user may type in chat mode
UserMessages ==
    { <<Plain("hi")>>,
      <<Marker("lookup", "{\"id\": 42}")>>,
      <<Plain("run "), Marker("lookup", "{bad"),
        Marker("lookup", "{\"id\": 42}")>> }

\* variant: a user message starts the history again after the system prompt
ChatInput_RestartsHistory ==
    /\ pc = "chat_prompt"
    /\ completions < MaxCompletions
    /\ \E user_message \in UserMessages :
          conversation_history' =
              << conversation_history[1], Turn("user", Some(user_message)) >>
    /\ rounds' = 0
    /\ pc' = "completion"
    /\ UNCHANGED <<envVars, outbound, caller, smVars, hsVars, mainVars,
                   openai_tools, completion, pending, tcall, completions, messages, tasks>>

\* handle_chat_mode lines 32-41: a user message starts process_conversation
ChatInput ==
    /\ pc = "chat_prompt"
    /\ completions < MaxCompletions
    /\ \E user_message \in UserMessages :
          conversation_history' =
              Append(conversation_history, Turn("user", Some(user_message)))
    /\ rounds' = 0
    /\ pc' = "completion"
    /\ UNCHANGED <<envVars, outbound, caller, smVars, hsVars, mainVars,
                   openai_tools, completion, pending, tcall, completions, messages, tasks>>

\* handle_chat_mode lines 33-35: exit or quit
ChatExit ==
    /\ pc = "chat_prompt"
    /\ LeaveChat("Exiting chat mode.")
    /\ UNCHANGED <<envVars, outbound, caller, smVars, hsVars, command, cmd,
                   cmds, site, callOut, chatVars>>

\* a completion result: the text and the tool calls (None when absent)
Completion(response, tool_calls) ==
    [response |-> response, tool_calls |-> tool_calls]

\* `if tool_calls:` None and the empty list are falsy
HasToolCalls(c) == c.tool_calls # None /\ c.tool_calls[1] # <<>>

\* what the completion interface may return
Completions ==
    { Completion(Some(<<Plain("done")>>), None),
      Completion(Some(<<Plain("done")>>), Some(<<>>)),
      Completion(None, Some(<<StructuredCall("echo", "str", "{bad"),
                              StructuredCall("echo", "str", "{\"x\": 1}"),
                              StructuredCall("lookup", "dict", [id |-> 42])>>)),
      Completion(Some(<<Marker("lookup", "{\"id\": 42}")>>),
                 Some(<<TextualCall>>)) }

\* variant: the final answer is appended and the loop is not left
Complete_NoBreak ==
    /\ pc = "completion"
    /\ completions < MaxCompletions
    /\ rounds' = rounds + 1
    /\ completions' = completions + 1
    /\ messages' = conversation_history
    /\ UNCHANGED tasks
    /\ \E c \in Completions :
         /\ completion' = Some(c)
         /\ IF HasToolCalls(c)
               THEN /\ pending' = c.tool_calls[1]
                    /\ pc' = "tool_loop"
                    /\ UNCHANGED <<conversation_history, printed>>
               ELSE /\ conversation_history' =
                          Append(conversation_history,
                                 Turn("assistant", c.response))
                    /\ printed' = "Assistant:"
                    /\ pending' = <<>>
                    /\ pc' = "completion"
    /\ UNCHANGED <<envVars, outbound, caller, smVars, hsVars, command, cmd,
                   cmds, site, callOut, should_continue, openai_tools, tcall>>

\* process_conversation lines 55-75: one completion; tool calls start the
\* for loop, otherwise the answer is appended and the function returns
Complete ==
    /\ pc = "completion"
    /\ completions < MaxCompletions
    /\ rounds' = rounds + 1
    /\ completions' = completions + 1
    /\ messages' = conversation_history
    /\ UNCHANGED tasks
    /\ \E c \in Completions :
         /\ completion' = Some(c)
         /\ IF HasToolCalls(c)
               THEN /\ pending' = c.tool_calls[1]
                    /\ pc' = "tool_loop"
                    /\ UNCHANGED <<conversation_history, printed>>
               ELSE /\ conversation_history' =
                          Append(conversation_history,
                                 Turn("assistant", c.response))
                    /\ printed' = "Assistant:"
                    /\ pending' = <<>>
                    /\ pc' = "chat_prompt"
    /\ UNCHANGED <<envVars, outbound, caller, smVars, hsVars, command, cmd,
                   cmds, site, callOut, should_continue, openai_tools, tcall>>

\* variant: the exception of the completion is caught by the outer handler
\* of handle_chat_mode, which ends chat mode
CompleteRaises_LeavesChat ==
    /\ pc = "completion"
    /\ completions < MaxCompletions
    /\ rounds' = rounds + 1
    /\ completions' = completions + 1
    /\ messages' = conversation_history
    /\ UNCHANGED tasks
    /\ completion' = None
    /\ LeaveChat("Error in chat mode")
    /\ UNCHANGED <<envVars, outbound, caller, smVars, hsVars, command, cmd,
                   cmds, site, callOut,
                   conversation_history, openai_tools, pending, tcall>>

\* create_completion raises (llm_client.py lines 57-60, 102-105); the
\* exception leaves process_conversation and is caught by handle_chat_mode
\* lines 43-45
CompleteRaises ==
    /\ pc = "completion"
    /\ completions < MaxCompletions
    /\ rounds' = rounds + 1
    /\ completions' = completions + 1
    /\ messages' = conversation_history
    /\ UNCHANGED tasks
    /\ completion' = None
    /\ printed' = "Error processing message"
    /\ pc' = "chat_prompt"
    /\ UNCHANGED <<envVars, outbound, caller, smVars, hsVars, command, cmd,
                   cmds, site, callOut, should_continue,
                   conversation_history, openai_tools, pending, tcall>>

\* variant: the for loop is left while tool calls of the round remain
ToolLoopEnd_Early ==
    /\ pc = "tool_loop"
    /\ pc' = "completion"
    /\ UNCHANGED <<envVars, outbound, caller, smVars, hsVars, mainVars,
                   chatVars>>

\* process_conversation lines 66-70: the for loop is exhausted
ToolLoopEnd ==
    /\ pc = "tool_loop"
    /\ pending = <<>>
    /\ pc' = "completion"
    /\ UNCHANGED <<envVars, outbound, caller, smVars, hsVars, mainVars,
                   chatVars>>

\* variant: a call that cannot be resolved ends the for loop of the round
ToolCallStart_AbortsRound ==
    /\ pc = "tool_loop"
    /\ pending # <<>>
    /\ LET r == ResolveToolCall(Head(pending), conversation_history) IN
         IF r.ok
            THEN /\ tcall' = Some([tool_name |-> r.tool_name,
                                   tool_args |-> r.tool_args])
                 /\ printed' = "Tool invoked"
                 /\ CallSendMessage("send_call_tool", "handle_tool_call",
                        Some([name |-> r.tool_name,
                              arguments |-> r.tool_args]))
                 /\ UNCHANGED pending
            ELSE /\ pending' = <<>>
                 /\ UNCHANGED <<pc, caller, smVars, site, callOut, tcall,
                                printed>>
    /\ UNCHANGED <<envVars, outbound, hsVars, command, cmd, cmds,
                   should_continue, conversation_history, openai_tools,
                   completion, rounds, completions, messages, tasks>>

\* handle_tool_call lines 26-53: resolve the call; an unresolved call or
\* undecodable arguments end handle_tool_call (lines 85-88), otherwise
\* send_call_tool is called
ToolCallStart ==
    /\ pc = "tool_loop"
    /\ pending # <<>>
    /\ LET r == ResolveToolCall(Head(pending), conversation_history) IN
         IF r.ok
            THEN /\ tcall' = Some([tool_name |-> r.tool_name,
                                   tool_args |-> r.tool_args])
                 /\ printed' = "Tool invoked"
                 /\ CallSendMessage("send_call_tool", "handle_tool_call",
                        Some([name |-> r.tool_name,
                              arguments |-> r.tool_args]))
                 /\ UNCHANGED pending
            ELSE /\ pending' = Tail(pending)
                 /\ UNCHANGED <<pc, caller, smVars, site, callOut, tcall,
                                printed>>
    /\ UNCHANGED <<envVars, outbound, hsVars, command, cmd, cmds,
                   should_continue, conversation_history, openai_tools,
                   completion, rounds, completions, messages, tasks>>

\* the tool result is usable: a dict that is not flagged as an error
ToolResultOk(out) ==
    /\ out.val # None
    /\ ~(HasKey(out.val[1], "isError") /\ out.val[1].isError)

\* tool_response.get("content", [])
ContentOf(tool_response) ==
    IF HasKey(tool_response, "content") THEN tool_response.content
    ELSE ListContent(<<>>)

\* variant: the turns are appended for an error result as well
ToolCallReturn_AppendsErrors ==
    /\ pc = "call_ret"
    /\ site = "handle_tool_call"
    /\ IF callOut.val # None
          THEN conversation_history' =
                 conversation_history \o
                 << AssistantCallTurn(tcall[1].tool_name, tcall[1].tool_args),
                    ToolTurn(tcall[1].tool_name,
                             format_tool_response(ContentOf(callOut.val[1]))) >>
          ELSE conversation_history' = conversation_history
    /\ pending' = Tail(pending)
    /\ tcall' = None
    /\ pc' = "tool_loop"
    /\ ResetCall
    /\ UNCHANGED <<envVars, outbound, hsVars, command, cmd, cmds, printed,
                   should_continue, openai_tools, completion, rounds, completions, messages, tasks>>

\* variant: the tool turn is appended without the assistant turn of the call
ToolCallReturn_ToolTurnOnly ==
    /\ pc = "call_ret"
    /\ site = "handle_tool_call"
    /\ IF ToolResultOk(callOut)
          THEN conversation_history' =
                 conversation_history \o
                 << ToolTurn(tcall[1].tool_name,
                             format_tool_response(ContentOf(callOut.val[1]))) >>
          ELSE conversation_history' = conversation_history
    /\ pending' = Tail(pending)
    /\ tcall' = None
    /\ pc' = "tool_loop"
    /\ ResetCall
    /\ UNCHANGED <<envVars, outbound, hsVars, command, cmd, cmds, printed,
                   should_continue, openai_tools, completion, rounds, completions, messages, tasks>>

\* variant: a failed invocation is recorded in the history as a tool turn
ToolCallReturn_RecordsFailure ==
    /\ pc = "call_ret"
    /\ site = "handle_tool_call"
    /\ IF ToolResultOk(callOut)
          THEN conversation_history' =
                 conversation_history \o
                 << AssistantCallTurn(tcall[1].tool_name, tcall[1].tool_args),
                    ToolTurn(tcall[1].tool_name,
                             format_tool_response(ContentOf(callOut.val[1]))) >>
          ELSE conversation_history' =
                 Append(conversation_history,
                        ToolTurn(tcall[1].tool_name, <<Plain("failed")>>))
    /\ pending' = Tail(pending)
    /\ tcall' = None
    /\ pc' = "tool_loop"
    /\ ResetCall
    /\ UNCHANGED <<envVars, outbound, hsVars, command, cmd, cmds, printed,
                   should_continue, openai_tools, completion, rounds, completions, messages, tasks>>

\* handle_tool_call lines 54-83: skip an error result, otherwise append the
\* assistant turn of the call and the tool turn of its result
ToolCallReturn ==
    /\ pc = "call_ret"
    /\ site = "handle_tool_call"
    /\ IF ToolResultOk(callOut)
          THEN conversation_history' =
                 conversation_history \o
                 << AssistantCallTurn(tcall[1].tool_name, tcall[1].tool_args),
                    ToolTurn(tcall[1].tool_name,
                             format_tool_response(ContentOf(callOut.val[1]))) >>
          ELSE conversation_history' = conversation_history
    /\ pending' = Tail(pending)
    /\ tcall' = None
    /\ pc' = "tool_loop"
    /\ ResetCall
    /\ UNCHANGED <<envVars, outbound, hsVars, command, cmd, cmds, printed,
                   should_continue, openai_tools, completion, rounds, completions, messages, tasks>>

----------------------------------------------------------------------------
(* A chat entered from the interactive prompt of an initialized session *)

TextBlock(str) == [type |-> "text", text |-> str]

\* what the remote may send while chat mode runs
ToolsListItems ==
    { JSONRPCMessage(Some("tools/list"), None, None,
          Some([tools |-> ListContent(<<DictEntry(EchoTool)>>)]), None),
      JSONRPCMessage(Some("tools/list"), None, None,
          Some([tools |-> OtherContent("no list")]), None),
      JSONRPCMessage(Some("tools/list"), None, None,
          Some([tools |-> ListContent(<<DictEntry([description |-> "d"])>>)]),
          None),
      JSONRPCMessage(Some("tools/list"), None, None, None, Some(RpcError)) }

ToolCallItems ==
    { JSONRPCMessage(Some("tools/call"), None, None,
          Some([content |-> ListContent(<<TextBlock("1")>>)]), None),
      JSONRPCMessage(Some("tools/call"), None, None,
          Some([content |-> ListContent(<<TextBlock("failed")>>),
                isError |-> TRUE]), None),
      JSONRPCMessage(Some("tools/call"), None, None, None, Some(RpcError)),
      ExceptionObj("ConnectionError") }

RemoteSendChat ==
    \E item \in (IF caller = "send_call_tool" THEN ToolCallItems
                 ELSE ToolsListItems) : RemotePut(item, MaxChatInbound)

InitChat ==
    /\ pc = "dispatch"
    /\ inbound = <<>>
    /\ closed = FALSE
    /\ produced = 0
    /\ outbound = <<init_message, initialized_notify>>
    /\ caller = "none"
    /\ sm = NoCall
    /\ smOut = NoOutcome
    /\ attempts = <<>>
    /\ lastRecv = None
    /\ sleeps = 0
    /\ hsOut = Returned(Some(model_validate(ValidInitResult)))
    /\ hsRead = << JSONRPCMessage(Some("init-1"), None, None,
                                  Some(ValidInitResult), None) >>
    /\ hsEnd = "ok"
    /\ command = None
    /\ cmd = "chat"
    /\ cmds = 1
    /\ site = "none"
    /\ callOut = NoOutcome
    /\ printed = "none"
    /\ should_continue = TRUE
    /\ NoChat

\* The stream stays open during the chat: the end of the stream is a step
\* of Spec and SpecSM, and for the chat a closed stream gives each exchange
\* the outcome of exhausted retries (send_call_tool returns its error
\* result, send_tools_list raises).
NextChat ==
    \/ CmdChat
    \/ ChatSetup
    \/ ChatInput
    \/ ChatExit
    \/ Complete
    \/ CompleteRaises
    \/ ToolLoopEnd
    \/ ToolCallStart
    \/ ToolCallReturn
    \/ SmSend
    \/ SmReceive
    \/ SmTimeout
    \/ SmSleep
    \/ WrapperReturn
    \/ CommandReturn
    \/ InputEOF
    \/ RemoteSendChat

SpecChat == InitChat /\ [][NextChat]_vars


----------------------------------------------------------------------------
(* Properties of the exchange layer, checked under SpecSM *)

Last(s) == s[Len(s)]

\* the direct send_message call has ended
SmEnded == caller = "direct" /\ pc = "sm_done"

\* every attempt before the last finished one timed out
EarlierAttemptsTimedOut ==
    \A i \in 1..(Len(attempts) - 1) : attempts[i] = "timeout"

\* x is a Response to the request with id idv: a result and no error
ValidResponse(x, idv) ==
    ~IsException(x) /\ x.id = idv /\ x.result # None /\ x.error = None

\* C1: the response send_message returns to its caller has the id of the
\* request it wrote; envelopes with another id (or none) are never returned.
C1_ReturnedIdMatchesRequest ==
    (SmEnded /\ smOut.kind = "return" /\ smOut.val # None)
        => smOut.val[1].id = sm.message.id

\* C2: while the inbound stream has yielded nothing, send_message returns no
\* value and writes at most `retries` Requests; it ends by raising
\* TimeoutError after exactly `retries` writes of the same Request.
C2_SilentStreamTimesOutAfterNSends ==
    (caller = "direct" /\ produced = 0 /\ ~closed)
        => /\ Len(outbound) <= sm.retries
           /\ smOut.kind # "return"
           /\ pc = "sm_done"
                => /\ smOut = Raised(TimeoutError)
                   /\ Len(outbound) = sm.retries
                   /\ \A i \in 1..Len(outbound) : outbound[i] = sm.message

C2_Witness ==
    /\ SmEnded /\ produced = 0 /\ ~closed
    /\ sm.retries = 3 /\ Len(outbound) = 3
    /\ smOut = Raised(TimeoutError)

\* C3: when the first k attempts timed out and attempt k+1 received a valid
\* Response, send_message returns that Response's dict, raises nothing and
\* has written the Request exactly k+1 times.
C3_ResponseAfterKTimeouts ==
    (/\ SmEnded
     /\ attempts # <<>>
     /\ Last(attempts) = "response"
     /\ EarlierAttemptsTimedOut
     /\ ValidResponse(lastRecv[1], sm.message.id))
        => /\ smOut = Returned(Some(model_dump(lastRecv[1])))
           /\ smOut.val[1].result = lastRecv[1].result
           /\ Len(outbound) = Len(attempts)
           /\ sm.attempt = Len(attempts)

C3_Witness ==
    /\ SmEnded
    /\ sm.retries = 3
    /\ attempts = <<"timeout", "timeout", "response">>
    /\ ValidResponse(lastRecv[1], sm.message.id)
    /\ smOut.kind = "return"
    /\ Len(outbound) = 3

\* C4: a send_message call ends either by returning a Response envelope or
\* by raising an error; it never returns normally without a Response.
C4_ReturnsResponseOrRaises ==
    SmEnded => \/ smOut.kind = "raise"
               \/ smOut.kind = "return" /\ smOut.val # None

\* C5: an attempt that received a transport error object fails; with
\* attempts left the call sleeps and runs the full send+wait cycle again;
\* when the last attempt fails, the error raised is TimeoutError after a
\* timeout and the received error object after a transport error, and it is
\* raised only when all `retries` attempts have been made.
C5_TransportErrorRetriedThenRaised ==
    caller = "direct" =>
      /\ (pc = "sm_sleep" /\ Last(attempts) = "transport")
            => /\ sm.attempt < sm.retries
               /\ smOut.kind = "none"
               /\ Len(outbound) = sm.attempt
      /\ (pc = "sm_send" /\ sm.attempt > 1)
            => Len(outbound) = sm.attempt - 1
      /\ (pc = "sm_done" /\ Last(attempts) = "timeout")
            => smOut = Raised(TimeoutError)
      /\ (pc = "sm_done" /\ Last(attempts) = "transport")
            => smOut = Raised(lastRecv[1]) /\ IsException(lastRecv[1])
      /\ smOut.kind = "raise"
            => /\ Len(attempts) = sm.retries
               /\ Len(outbound) = sm.retries
               /\ Last(attempts) \in {"timeout", "transport"}

C5_Witness ==
    /\ SmEnded
    /\ attempts = <<"transport", "timeout", "transport">>
    /\ smOut = Raised(ExceptionObj("ConnectionError"))
    /\ Len(outbound) = 3


----------------------------------------------------------------------------
(* Properties of the session, checked under Spec *)

\* a Request: an envelope with an id and a method
IsRequest(m) == m.id # None /\ m.method # None

\* positions in the outbound stream
InitializeRequests ==
    {i \in 1..Len(outbound) : outbound[i].method = Some("initialize")}
InitializedNotifications ==
    {i \in 1..Len(outbound) :
        outbound[i].method = Some("notifications/initialized")}
OtherRequests ==
    {i \in 1..Len(outbound) :
        IsRequest(outbound[i]) /\ outbound[i].method # Some("initialize")}

\* the wrapper's caller sees a failure: an exception, a tagged error result
\* or, for send_ping, False
FailureOutcome(wrapper, out) ==
    \/ out.kind = "raise"
    \/ /\ wrapper = "send_call_tool"
       /\ out.val # None
       /\ HasKey(out.val[1], "isError")
       /\ out.val[1].isError
    \/ /\ wrapper = "send_ping"
       /\ out.val = Some(FALSE)

\* send_message returned a Response whose error field is not null
GotErrorResponse ==
    /\ smOut.kind = "return"
    /\ smOut.val # None
    /\ smOut.val[1].error # None

\* C6: a Response with a non-null error ends the exchange at once (no
\* further attempt) and every wrapper of send_message hands it to its caller
\* as a failure, never as a success.
C6_ErrorResponseIsFailure ==
    (pc = "call_ret" /\ GotErrorResponse)
        => /\ Last(attempts) = "response"
           /\ Len(attempts) = sm.attempt
           /\ FailureOutcome(caller, callOut)

\* an envelope that carries a result which fails InitializeResult validation
CarriesInvalidResult(x) ==
    /\ ~IsException(x)
    /\ x.result # None
    /\ ~InitializeResultValid(x.result[1])

\* C7: whenever the handshake received a response whose result does not
\* validate, send_initialize returns None and writes no initialized
\* notification.
C7_InvalidResultYieldsNull ==
    (\E i \in 1..Len(hsRead) : CarriesInvalidResult(hsRead[i]))
        => /\ hsOut.kind = "return" => hsOut.val = None
           /\ InitializedNotifications = {}

\* the handshake's state, read off the position of main
HandshakeState ==
    CASE pc = "main_start" -> "Unstarted"
      [] pc \in {"hs_wait", "hs_notify"} -> "AwaitingResult"
      [] OTHER -> IF hsOut.val # None THEN "Initialized" ELSE "Failed"

HandshakeSteps ==
    { <<"Unstarted", "AwaitingResult">>,
      <<"AwaitingResult", "Initialized">>,
      <<"AwaitingResult", "Failed">> }

C8_Writes ==
    /\ Cardinality(InitializeRequests) = IF pc = "main_start" THEN 0 ELSE 1
    /\ \A i \in InitializeRequests : i = 1 /\ outbound[i] = init_message
    /\ Cardinality(InitializedNotifications) <= 1
    /\ \A i \in InitializedNotifications :
          /\ outbound[i].id = None
          /\ i = 2
          /\ hsEnd = "ok"
          /\ hsRead # <<>>
          /\ ~IsException(Last(hsRead))
          /\ InitializeResultValid(Last(hsRead).result[1])
    /\ pc = "hs_notify" => hsOut = NoOutcome /\ InitializedNotifications = {}
    /\ HandshakeState = "Initialized" => InitializedNotifications # {}
    /\ HandshakeState = "Failed" => InitializedNotifications = {}

C8_Step ==
    /\ HandshakeState' # HandshakeState
          => <<HandshakeState, HandshakeState'>> \in HandshakeSteps
    /\ HandshakeState \in {"Initialized", "Failed"} => hsOut' = hsOut

\* C8: send_initialize writes exactly one initialize Request (no retry), at
\* most one initialized Notification (no id), written after a validated
\* result was received and before a non-null result is returned; the
\* handshake goes Unstarted -> AwaitingResult -> Initialized or Failed and
\* stays in its terminal state.
C8_HandshakeOnce == [](C8_Writes) /\ [][C8_Step]_vars

C8_Witness ==
    /\ HandshakeState = "Initialized"
    /\ Len(hsRead) >= 2
    /\ Len(outbound) >= 3
    /\ outbound[1] = init_message
    /\ outbound[2] = initialized_notify

\* C9: no Request other than initialize is written before send_initialize
\* returned a validated result; when the handshake ends by an error field, a
\* timeout, a validation failure or the end of the stream, its result is
\* None, main stops and no further Request is written.
C9_SessionGating ==
    /\ OtherRequests # {}
          => /\ hsOut.kind = "return"
             /\ hsOut.val # None
             /\ hsEnd = "ok"
             /\ \A i \in OtherRequests : i > 2
    /\ hsEnd \in {"error", "timeout", "invalid", "eof"}
          => /\ hsOut = Returned(None)
             /\ OtherRequests = {}
             /\ Len(outbound) = 1
             /\ pc \in {"hs_done", "exit"}

C9_Witness ==
    /\ pc = "exit"
    /\ command = Some("ping")
    /\ hsEnd = "invalid"
    /\ printed = "Server initialization failed"
    /\ OtherRequests = {}


----------------------------------------------------------------------------
(* Properties of the orchestration loop, checked under SpecChat *)

\* a create_completion call that returned a result without tool calls
FinalAnswerStep ==
    /\ pc = "completion"
    /\ completions' = completions + 1
    /\ completion' # None
    /\ ~HasToolCalls(completion'[1])

C10_Step ==
    FinalAnswerStep
        => /\ conversation_history' =
                 Append(conversation_history,
                        Turn("assistant", completion'[1].response))
           /\ outbound' = outbound
           /\ pc' = "chat_prompt"

\* C10: a completion with an empty or absent tool-call list makes
\* process_conversation append exactly one assistant turn with the
\* completion's text, write nothing to the outbound stream and return
\* without another completion call.
C10_FinalAnswerEndsLoop == [][C10_Step]_vars

C10_Witness ==
    /\ pc = "chat_prompt"
    /\ rounds = 2
    /\ completion # None
    /\ ~HasToolCalls(completion[1])
    /\ Last(conversation_history) = Turn("assistant", completion[1].response)
    /\ Len(conversation_history) = 5
    /\ Len(outbound) >= 4

\* the tools/call exchange of the running handle_tool_call has ended
InToolCallReturn == pc = "call_ret" /\ site = "handle_tool_call"

\* the Response the exchange received carries a result that is no error
ReceivedToolResult ==
    /\ lastRecv # None
    /\ ~IsException(lastRecv[1])
    /\ lastRecv[1].error = None
    /\ lastRecv[1].result # None

ReceivedNonErrorResult ==
    /\ ReceivedToolResult
    /\ ~(HasKey(lastRecv[1].result[1], "isError")
          /\ lastRecv[1].result[1].isError)

\* the two turns handle_tool_call is to append for the tool and the content
TurnsOfCall(h, n, tool_name, content) ==
    /\ Len(h) = n + 2
    /\ SubSeq(h, 1, n) = SubSeq(conversation_history, 1, n)
    /\ h[n + 1].role = "assistant"
    /\ h[n + 1].content = None
    /\ Len(h[n + 1].tool_calls) = 1
    /\ h[n + 1].tool_calls[1].function.name = tool_name
    /\ h[n + 1].tool_calls[1].id = CallId(tool_name)
    /\ h[n + 2].role = "tool"
    /\ h[n + 2].name = Some(tool_name)
    /\ h[n + 2].content = Some(format_tool_response(content))
    /\ h[n + 2].tool_call_id = Some(CallId(tool_name))

\* C11: an invocation whose tools/call exchange received a non-error result
\* appends exactly two turns once the response is there: the assistant turn
\* of the call (content null, the tool's name) and then the tool turn with
\* the formatted result, both with the token call_<name>; while the exchange
\* runs the history is not touched.
C11_Step ==
    /\ (site = "handle_tool_call" /\ ~InToolCallReturn)
          => UNCHANGED conversation_history
    /\ (InToolCallReturn /\ ReceivedNonErrorResult)
          => TurnsOfCall(conversation_history', Len(conversation_history),
                         Last(outbound).params[1].name,
                         ContentOf(lastRecv[1].result[1]))

C11_ToolCallAppendsTwoTurns == [][C11_Step]_vars

C11_Witness ==
    /\ pc = "tool_loop"
    /\ Len(conversation_history) = 4
    /\ conversation_history[3].role = "assistant"
    /\ Len(conversation_history[3].tool_calls) = 1
    /\ conversation_history[3].tool_calls[1].function.name = "echo"
    /\ conversation_history[4].role = "tool"
    /\ conversation_history[4].content = Some(<<Plain("1")>>)
    /\ conversation_history[4].tool_call_id = Some(CallId("echo"))

\* s is a prefix of t
IsPrefix(s, t) == Len(s) <= Len(t) /\ SubSeq(t, 1, Len(s)) = s

\* the turn at position i answers the call recorded in the turn before it
ToolTurnAnswersPrevious(h, i) ==
    /\ i > 1
    /\ h[i - 1].role = "assistant"
    /\ Len(h[i - 1].tool_calls) = 1
    /\ Some(h[i - 1].tool_calls[1].function.name) = h[i].name
    /\ Some(h[i - 1].tool_calls[1].id) = h[i].tool_call_id

C12_ToolTurnsPaired ==
    \A i \in 1..Len(conversation_history) :
        conversation_history[i].role = "tool"
            => ToolTurnAnswersPrevious(conversation_history, i)

C12_Grows == IsPrefix(conversation_history, conversation_history')

\* C12: in a chat session the history only grows by appending (each history
\* is a prefix of the next one), and every tool turn comes right after the
\* assistant turn of its call, with the same tool name and token.
C12_HistoryAppendOnly == [](C12_ToolTurnsPaired) /\ [][C12_Grows]_vars

C12_Witness ==
    /\ Len(conversation_history) >= 5
    /\ \E i \in 2..(Len(conversation_history) - 1) :
          /\ conversation_history[i].role = "tool"
          /\ ToolTurnAnswersPrevious(conversation_history, i)
          /\ conversation_history[i + 1].role = "assistant"

\* the exchange of the running send_call_tool failed: send_message raised
\* (timeouts or transport errors to the last attempt) or the Response it
\* returned has a populated error field
CallToolExchangeFailed ==
    \/ smOut.kind = "raise"
    \/ /\ smOut.kind = "return"
       /\ smOut.val # None
       /\ smOut.val[1].error # None

TaggedError(out) ==
    /\ out.val # None
    /\ HasKey(out.val[1], "isError")
    /\ out.val[1].isError
    /\ HasKey(out.val[1], "error")

\* C13: send_call_tool never raises and never returns an absent value; when
\* the exchange succeeded it returns the remote result, and when it failed
\* (retries exhausted, transport error, error Response) it returns a result
\* tagged isError = true with a message.
C13_CallToolFailuresAreData ==
    (pc = "call_ret" /\ caller = "send_call_tool")
        => /\ callOut.kind = "return"
           /\ callOut.val # None
           /\ CallToolExchangeFailed => TaggedError(callOut)
           /\ (smOut.kind = "return" /\ smOut.val # None
                 /\ smOut.val[1].error = None)
                => callOut.val = smOut.val[1].result

\* the result the remote sent is flagged as an error
ReceivedErrorResult ==
    /\ ReceivedToolResult
    /\ HasKey(lastRecv[1].result[1], "isError")
    /\ lastRecv[1].result[1].isError

\* the exchange failed by an exception of send_message
ToolExchangeRaised == smOut.kind = "raise"

\* C14: when the tool result is an error (flagged by the remote, or made by
\* send_call_tool from a failed exchange) handle_tool_call appends nothing,
\* control returns to the for loop of the round and the invocations after
\* this one are still there to be processed.
C14_Step ==
    (InToolCallReturn /\ (ReceivedErrorResult \/ ToolExchangeRaised))
        => /\ UNCHANGED conversation_history
           /\ pc' = "tool_loop"
           /\ pending' = Tail(pending)

C14_ErrorResultLeavesHistory == [][C14_Step]_vars

C14_Witness ==
    /\ InToolCallReturn
    /\ ReceivedErrorResult
    /\ Len(pending) = 2
    /\ callOut.val # None /\ HasKey(callOut.val[1], "isError")

\* send_tools_list has returned to fetch_tools
InFetchToolsReturn == pc = "call_ret" /\ site = "fetch_tools"

\* the payload of the Response to tools/list is no well-formed list of tool
\* descriptors: no result, `tools` that is no list, or an entry that is no
\* record with a name
MalformedToolsPayload ==
    /\ lastRecv # None
    /\ ~IsException(lastRecv[1])
    /\ \/ lastRecv[1].result = None
       \/ LET r == lastRecv[1].result[1] IN
            /\ HasKey(r, "tools")
            /\ \/ ~HasKey(r.tools, "list")
               \/ \E i \in 1..Len(r.tools.list) :
                     \/ ~HasKey(r.tools.list[i], "dict")
                     \/ ~HasKey(r.tools.list[i].dict, "name")

\* C15: for a malformed tools/list payload the listing step yields an empty
\* or absent list, so chat mode is left by the "no tools" return and no
\* exception of fetch_tools or convert_to_openai_tools reaches the handler
\* of handle_chat_mode.
C15_Step ==
    (InFetchToolsReturn /\ MalformedToolsPayload)
        => /\ printed' = "No tools available. Exiting chat mode."
           /\ pc' = "cmd_ret"

C15_MalformedToolsYieldNoTools == [][C15_Step]_vars

\* the exchange of the running command failed: send_message raised, its
\* stream ended, or the Response it returned carries an error
CommandExchangeFailed ==
    \/ smOut.kind = "raise"
    \/ smOut.kind = "return" /\ smOut.val = None
    \/ smOut.kind = "return" /\ smOut.val # None /\ smOut.val[1].error # None

\* the lines by which handle_command reports a failure
ErrorLines ==
    {"Error executing command", "Server ping failed", "Error calling tool"}

\* C16: in interactive mode, when the exchange of a command failed,
\* handle_command prints an error line and returns True, and the command
\* loop goes back to its prompt; the loop is only left after quit/exit or at
\* the end of the input.
C16_Step ==
    /\ (pc = "call_ret" /\ site = "handle_command" /\ command = None
          /\ CommandExchangeFailed)
         => /\ printed' \in ErrorLines
            /\ should_continue'
            /\ pc' = "cmd_ret"
    /\ (pc = "cmd_ret" /\ command = None /\ cmd \notin {"quit", "exit"})
         => pc' = "prompt"
    /\ (command = None /\ pc # "exit" /\ pc' = "exit")
         => \/ pc = "prompt"
            \/ pc = "cmd_ret" /\ cmd \in {"quit", "exit"}
            \/ pc = "hs_done"

C16_FailedExchangeKeepsLoop == [][C16_Step]_vars

\* the step in which create_completion raises: a completion was asked for
\* and none came back
CompletionRaisedStep ==
    /\ pc = "completion"
    /\ completions' = completions + 1
    /\ completion' = None

\* C17: when the completion interface raises in a round of
\* process_conversation, no turn is appended for it, chat mode is not left,
\* and handle_chat_mode is back at its prompt with the history built so far.
C17_Step ==
    CompletionRaisedStep
        => /\ UNCHANGED conversation_history
           /\ pc' = "chat_prompt"
           /\ printed' = "Error processing message"

C17_BackendErrorAbortsTurn == [][C17_Step]_vars

\* a user message was read after a completion had raised
C17_Witness ==
    /\ pc = "completion"
    /\ completions = 1
    /\ completion = None
    /\ Len(conversation_history) = 3
    /\ conversation_history[2].role = "user"
    /\ conversation_history[3].role = "user"

\* handle_tool_call is about to resolve a call without a structured call
\* object, and the turn it scans has a text
FallbackCallStarts ==
    /\ pc = "tool_loop"
    /\ pending # <<>>
    /\ Head(pending).function = None
    /\ Last(conversation_history).content # None

\* position of the marker a left-to-right scan of the text meets first
MarkerAt(text, i) ==
    /\ i \in 1..Len(text)
    /\ text[i].t = "marker"
    /\ \A j \in 1..(i - 1) : text[j].t # "marker"

\* C18: on the fallback path a scanned text whose marker carries valid JSON
\* gives the invocation {NAME, decoded ARGS}, for which the exchange is
\* started; with malformed JSON in the marker or without a marker there is
\* no invocation: no exchange is started, the history is unchanged and the
\* for loop goes on with the next tool call.
C18_Step ==
    FallbackCallStarts =>
      LET text == Last(conversation_history).content[1] IN
      /\ \A i \in 1..Len(text) :
            (MarkerAt(text, i) /\ JsonDecodes(text[i].args))
               => /\ tcall' = Some([tool_name |-> text[i].name,
                                    tool_args |-> JsonTable[text[i].args]])
                  /\ pc' = "sm_send"
                  /\ sm'.params = Some([name |-> text[i].name,
                                        arguments |-> JsonTable[text[i].args]])
      /\ (\A i \in 1..Len(text) :
             MarkerAt(text, i) => ~JsonDecodes(text[i].args))
            => /\ UNCHANGED <<conversation_history, outbound, caller>>
               /\ pc' = "tool_loop"
               /\ pending' = Tail(pending)

C18_FallbackParsing == [][C18_Step]_vars

\* a call was dropped because the marker of the scanned text has malformed
\* JSON; no tools/call Request was written
C18_Witness ==
    /\ pc = "tool_loop"
    /\ pending = <<>>
    /\ completion # None
    /\ completion[1].tool_calls = Some(<<TextualCall>>)
    /\ Len(conversation_history) = 2
    /\ \E i \in 1..Len(conversation_history[2].content[1]) :
          /\ MarkerAt(conversation_history[2].content[1], i)
          /\ ~JsonDecodes(conversation_history[2].content[1][i].args)
    /\ \A k \in 1..Len(outbound) : outbound[k].method # Some("tools/call")

\* C19: when handle_tool_call resolves a call on the fallback path, the turn
\* whose content it scans (the last of the history) is an assistant turn
\* holding the output of the completion that declared the call; it is never
\* a user turn or a tool turn.
C19_FallbackScansAssistantTurn ==
    (pc = "tool_loop" /\ pending # <<>> /\ Head(pending).function = None)
        => /\ Last(conversation_history).role = "assistant"
           /\ Last(conversation_history).content = completion[1].response

\* a is a subsequence of b
RECURSIVE IsSubseq(_, _)
IsSubseq(a, b) ==
    IF a = <<>> THEN TRUE
    ELSE IF b = <<>> THEN FALSE
    ELSE IF a[1] = b[1] THEN IsSubseq(Tail(a), Tail(b))
    ELSE IsSubseq(a, Tail(b))

\* the tool calls the last completion returned
RoundCalls ==
    IF completion # None /\ HasToolCalls(completion[1])
       THEN completion[1].tool_calls[1]
    ELSE <<>>

\* the names of the structured calls of the round that are finished or
\* running: all but the ones that follow the head of pending
StartedCallNames ==
    LET n == Len(RoundCalls) - Len(pending) + (IF tcall # None THEN 1 ELSE 0)
    IN  [i \in 1..n |-> IF RoundCalls[i].function # None
                         THEN RoundCalls[i].function[1].name
                         ELSE "textual"]

\* the names of the tool turns appended since the last completion was asked
RECURSIVE ToolTurnNames(_)
ToolTurnNames(h) ==
    IF h = <<>> THEN <<>>
    ELSE IF h[1].role = "tool" THEN <<h[1].name[1]>> \o ToolTurnNames(Tail(h))
    ELSE ToolTurnNames(Tail(h))

InRound == pc \in {"tool_loop", "sm_send", "sm_wait", "sm_sleep", "sm_done",
                   "call_ret"}

\* the calls still to do are the tail of the calls returned, and the tool
\* turns of the round follow the order of the calls started so far
C20_Order ==
    (InRound /\ completion # None /\ Len(messages) <= Len(conversation_history))
        => /\ Len(pending) <= Len(RoundCalls)
           /\ pending = SubSeq(RoundCalls,
                               Len(RoundCalls) - Len(pending) + 1,
                               Len(RoundCalls))
           /\ (\A i \in 1..Len(RoundCalls) : RoundCalls[i].function # None)
                => IsSubseq(ToolTurnNames(SubSeq(conversation_history,
                                                 Len(messages) + 1,
                                                 Len(conversation_history))),
                            StartedCallNames)

C20_Step ==
    \* a completion is asked for once per round, with the whole history, and
    \* only when no tool call of the round before is left or running
    /\ (completions' # completions)
          => /\ pc = "completion"
             /\ pending = <<>> /\ tcall = None /\ site = "none"
             /\ completions' = completions + 1
             /\ rounds' = rounds + 1
             /\ messages' = conversation_history
    /\ (pc = "completion" /\ pc' # pc) => completions' = completions + 1
    \* the calls are taken from the head, one at a time
    /\ (pending' # pending /\ pc # "completion") => pending' = Tail(pending)
    /\ (pc = "tool_loop" /\ pc' = "sm_send")
          => /\ site = "none" /\ tcall = None
             /\ pending # <<>>
             /\ Head(pending).function # None
                  => tcall'[1].tool_name = Head(pending).function[1].name
    \* a tools/call Request is written for the running call only
    /\ (outbound' # outbound /\ caller = "send_call_tool")
          => /\ outbound' = Append(outbound, sm.message)
             /\ tcall # None
             /\ sm.params[1].name = tcall[1].tool_name

\* C20: each round asks the completion interface once, with the full
\* history; the tool calls it returned are executed one at a time in the
\* order returned (a call's Request is written only after the call before it
\* has finished, and the turns follow that order); the next completion is
\* asked for only after all calls of the round were processed.
C20_RoundsAreSequential == [](C20_Order) /\ [][C20_Step]_vars

\* the Request of the third call is out after the second call has finished
\* and left its turns
C20_Witness ==
    /\ pc = "sm_wait"
    /\ caller = "send_call_tool"
    /\ Len(RoundCalls) = 3
    /\ Len(pending) = 1
    /\ sm.params[1].name = "lookup"
    /\ Last(outbound) = sm.message
    /\ Last(conversation_history).role = "tool"
    /\ Last(conversation_history).name = Some("echo")
    /\ messages = SubSeq(conversation_history, 1, 2)

\* the call at the head of the for loop cannot be executed: its argument
\* string does not decode, or it has no structured call object and the turn
\* scanned for it has no text or no marker with decodable ARGS first
HeadCallUnresolvable ==
    /\ pc = "tool_loop"
    /\ pending # <<>>
    /\ LET c == Head(pending) IN
       IF c.function # None
          THEN /\ c.function[1].arguments.type = "str"
               /\ ~JsonDecodes(c.function[1].arguments.v)
       ELSE LET content == Last(conversation_history).content IN
            \/ content = None
            \/ \A i \in 1..Len(content[1]) :
                  MarkerAt(content[1], i) => ~JsonDecodes(content[1][i].args)

\* C21: an invocation that cannot be resolved, or whose argument string does
\* not decode, is the only thing aborted: no tools/call exchange is started
\* and nothing is written for it, the history is unchanged, handle_tool_call
\* returns to the for loop and the later calls of the round are still there.
C21_Step ==
    HeadCallUnresolvable
        => /\ UNCHANGED <<conversation_history, outbound, caller, site>>
           /\ pc' = "tool_loop"
           /\ pending' = Tail(pending)

C21_UnresolvedCallAbortsOnlyItself == [][C21_Step]_vars

\* the Request of the second call is out after the first call, whose
\* arguments do not decode, was dropped
C21_Witness ==
    /\ pc = "sm_wait"
    /\ caller = "send_call_tool"
    /\ Len(RoundCalls) = 3
    /\ RoundCalls[1].function[1].arguments.v = "{bad"
    /\ Len(pending) = 2
    /\ conversation_history = messages
    /\ Last(outbound) = sm.message
    /\ Len(outbound) = 4

----------------------------------------------------------------------------
(* Termination of process_conversation, checked under SpecRound *)

\* the steps of the program inside a round of process_conversation: the for
\* loop, handle_tool_call and the exchange it awaits.  The wait of an attempt
\* ends by an item or by the deadline of fail_after, the sleep ends, and the
\* writes return, so a step that is possible is eventually taken.
RoundProgram ==
    \/ ToolLoopEnd
    \/ ToolCallStart
    \/ ToolCallReturn
    \/ SmSend
    \/ SmReceive
    \/ SmTimeout
    \/ SmSleep
    \/ WrapperReturn

\* process_conversation is entered: the tools were fetched and the first
\* user message is in the history
InitRound ==
    /\ pc = "completion"
    /\ inbound = <<>>
    /\ closed = FALSE
    /\ produced = 0
    /\ outbound = <<init_message, initialized_notify,
                    SmEntry("tools/list", None, None, DefaultRetries).message>>
    /\ caller = "none"
    /\ sm = NoCall
    /\ smOut = NoOutcome
    /\ attempts = <<>>
    /\ lastRecv = None
    /\ sleeps = 0
    /\ hsOut = Returned(Some(model_validate(ValidInitResult)))
    /\ hsRead = << JSONRPCMessage(Some("init-1"), None, None,
                                  Some(ValidInitResult), None) >>
    /\ hsEnd = "ok"
    /\ command = None
    /\ cmd = "chat"
    /\ cmds = 1
    /\ site = "none"
    /\ callOut = NoOutcome
    /\ printed = "Entering chat mode. Type 'exit'"
    /\ should_continue = TRUE
    /\ conversation_history =
          << Turn("system", Some(SystemPrompt)),
             Turn("user", Some(<<Marker("lookup", "{\"id\": 42}")>>)) >>
    /\ openai_tools = convert_to_openai_tools(<<EchoTool>>)
    /\ completion = None
    /\ pending = <<>>
    /\ tcall = None
    /\ rounds = 0
    /\ completions = 0
    /\ messages = <<>>
    /\ tasks = <<>>

\* one call of process_conversation, with the remote answering its exchanges
NextRound ==
    \/ Complete
    \/ CompleteRaises
    \/ RoundProgram
    \/ RemoteSendChat

SpecRound == InitRound /\ [][NextRound]_vars /\ WF_vars(RoundProgram)

\* the tool calls of a round are being processed
InToolRound == InRound /\ completion # None

C22_Step ==
    \* a result without tool calls ends process_conversation
    /\ (pc = "completion" /\ completions' # completions
          /\ completion' # None /\ ~HasToolCalls(completion'[1]))
         => pc' = "chat_prompt"
    \* a result with tool calls starts a round, however many there were
    /\ (pc = "completion" /\ completions' # completions
          /\ completion' # None /\ HasToolCalls(completion'[1]))
         => pc' = "tool_loop"
    /\ (pc = "tool_loop" /\ pending = <<>> /\ pc' # pc) => pc' = "completion"
    \* process_conversation is left by a final answer or an exception of the
    \* completion only
    /\ ((pc = "completion" \/ InToolRound) /\ pc' \notin {"completion"}
          /\ ~InToolRound')
         => /\ pc = "completion"
            /\ pc' = "chat_prompt"
            /\ completion' = None \/ ~HasToolCalls(completion'[1])

\* C22: every round of tool calls comes to its end, whatever the results,
\* timeouts and transport errors of its exchanges, and the completion is
\* asked again; process_conversation returns as soon as a completion has no
\* tool calls, and as long as completions have tool calls it does not return:
\* no count of rounds stops it.
C22_RoundsTerminate ==
    /\ InToolRound ~> (pc = "completion")
    /\ [][C22_Step]_vars

\* process_conversation has returned with the final answer after a round
\* whose tool calls all failed
C22_Witness ==
    /\ pc = "chat_prompt"
    /\ rounds = 2
    /\ completion # None
    /\ Len(conversation_history) = 3
    /\ Last(conversation_history) = Turn("assistant", completion[1].response)
    /\ Len(outbound) >= 6

----------------------------------------------------------------------------
(* Further properties of the exchange layer, checked under SpecSM *)

\* C23: in one send_message call the Request id is the message_id supplied,
\* or the method name without one; every attempt writes the same envelope
\* once; between two consecutive attempts there is exactly one sleep of
\* BackoffDelay units, and there is none after a returned Response or after
\* the last failed attempt.
C23_OneWriteAndOneBackoffPerRetry ==
    caller = "direct"
        => /\ sm.message.id = (IF sm.message_id # None THEN sm.message_id
                               ELSE Some(sm.method))
           /\ \A i \in 1..Len(outbound) : outbound[i] = sm.message
           /\ Len(outbound) = (IF pc = "sm_send" THEN sm.attempt - 1
                               ELSE sm.attempt)
           /\ pc \in {"sm_send", "sm_wait"}
                => sleeps * BackoffDelay = (sm.attempt - 1) * BackoffDelay
           /\ pc = "sm_done"
                => sleeps * BackoffDelay = (Len(outbound) - 1) * BackoffDelay

----------------------------------------------------------------------------
(* Two callers running send_message concurrently on one stream pair *)

Callers == {"A", "B"}
CallerId(c) == IF c = "A" THEN "req-A" ELSE "req-B"

\* the send_message call of caller c: its locals, its position and its end;
\* `answered` records that the remote has answered this caller's Request
TaskEntry(c) ==
    [sm |-> SmEntry("ping", None, Some(CallerId(c)), DefaultRetries),
     pc |-> "send", out |-> NoOutcome, answered |-> FALSE]

\* line 42: the caller writes its Request
TaskSend(c) ==
    /\ tasks[c].pc = "send"
    /\ outbound' = Append(outbound, tasks[c].sm.message)
    /\ tasks' = [tasks EXCEPT ![c].pc = "wait"]
    /\ UNCHANGED <<pc, envVars, caller, smVars, hsVars, mainVars,
                   conversation_history, openai_tools, completion, pending,
                   tcall, rounds, completions, messages>>

\* lines 54-63: the attempt of caller c failed with exception e
TaskFailed(c, e) ==
    IF tasks[c].sm.attempt = tasks[c].sm.retries
       THEN [tasks EXCEPT ![c].out = Raised(e), ![c].pc = "done"]
    ELSE [tasks EXCEPT ![c].pc = "sleep"]

\* lines 46-52: a caller waiting on the stream takes the next item, whatever
\* its id is; which of the waiting callers gets it depends on the schedule
TaskReceive(c) ==
    /\ tasks[c].pc = "wait"
    /\ inbound # <<>>
    /\ LET response == Head(inbound) IN
         /\ inbound' = Tail(inbound)
         /\ tasks' = IF ~IsException(response)
                        THEN [tasks EXCEPT
                                ![c].out = Returned(Some(model_dump(response))),
                                ![c].pc = "done"]
                     ELSE TaskFailed(c, response)
    /\ UNCHANGED <<pc, closed, produced, outbound, caller, smVars, hsVars,
                   mainVars, conversation_history, openai_tools, completion,
                   pending, tcall, rounds, completions, messages>>

\* line 45: the deadline of caller c expires while nothing is buffered
TaskTimeout(c) ==
    /\ tasks[c].pc = "wait"
    /\ inbound = <<>>
    /\ tasks' = TaskFailed(c, TimeoutError)
    /\ UNCHANGED <<pc, envVars, outbound, caller, smVars, hsVars, mainVars,
                   conversation_history, openai_tools, completion, pending,
                   tcall, rounds, completions, messages>>

\* line 66 and the next iteration of line 38
TaskSleep(c) ==
    /\ tasks[c].pc = "sleep"
    /\ tasks' = [tasks EXCEPT ![c].pc = "send",
                              ![c].sm.attempt = @ + 1]
    /\ UNCHANGED <<pc, envVars, outbound, caller, smVars, hsVars, mainVars,
                   conversation_history, openai_tools, completion, pending,
                   tcall, rounds, completions, messages>>

\* the remote answers the Request of caller c, once, with a Response that
\* has the id of that Request
RemoteAnswer(c) ==
    /\ ~tasks[c].answered
    /\ \E i \in 1..Len(outbound) : outbound[i] = tasks[c].sm.message
    /\ inbound' = Append(inbound,
                         JSONRPCMessage(tasks[c].sm.message.id, None, None,
                                        Some(OkResult), None))
    /\ produced' = produced + 1
    /\ tasks' = [tasks EXCEPT ![c].answered = TRUE]
    /\ UNCHANGED <<pc, closed, outbound, caller, smVars, hsVars, mainVars,
                   conversation_history, openai_tools, completion, pending,
                   tcall, rounds, completions, messages>>

InitConcurrent ==
    /\ pc = "tasks"
    /\ inbound = <<>>
    /\ closed = FALSE
    /\ produced = 0
    /\ outbound = <<>>
    /\ caller = "none"
    /\ sm = NoCall
    /\ smOut = NoOutcome
    /\ attempts = <<>>
    /\ lastRecv = None
    /\ sleeps = 0
    /\ hsOut = NoOutcome
    /\ hsRead = <<>>
    /\ hsEnd = "none"
    /\ command = None
    /\ cmd = ""
    /\ cmds = 0
    /\ site = "none"
    /\ callOut = NoOutcome
    /\ printed = "none"
    /\ should_continue = TRUE
    /\ conversation_history = <<>>
    /\ openai_tools = <<>>
    /\ completion = None
    /\ pending = <<>>
    /\ tcall = None
    /\ rounds = 0
    /\ completions = 0
    /\ messages = <<>>
    /\ tasks = [c \in Callers |-> TaskEntry(c)]

NextConcurrent ==
    \E c \in Callers :
        \/ TaskSend(c)
        \/ TaskReceive(c)
        \/ TaskTimeout(c)
        \/ TaskSleep(c)
        \/ RemoteAnswer(c)

SpecConcurrent == InitConcurrent /\ [][NextConcurrent]_vars

\* C24: with two callers running send_message concurrently under different
\* message ids and the remote answering both Requests, a caller is returned
\* only the Response that has the id of its own Request, whatever the
\* interleaving.
C24_ConcurrentCallersGetOwnReply ==
    \A c \in Callers :
        (tasks[c].out.kind = "return" /\ tasks[c].out.val # None)
            => tasks[c].out.val[1].id = Some(CallerId(c))

----------------------------------------------------------------------------
(* Formatting of a tool result by handle_tool_call *)

ImageBlock == [type |-> "image", data |-> "x"]

\* the content blocks a tool result may hold; a text block may lack its text
ContentBlocks ==
    {TextBlock("a"), TextBlock("b"), [type |-> "text"], ImageBlock}

\* the lists of at most n blocks
BlockLists(n) == UNION { [1..k -> ContentBlocks] : k \in 0..n }

\* the values `content` may have: a list of blocks, or another object
Contents == { ListContent(l) : l \in BlockLists(MaxBlocks) }
              \cup { OtherContent("{'value': 1}") }

\* send_call_tool has returned a result with some content to handle_tool_call
InitFormat ==
    /\ pc = "call_ret"
    /\ inbound = <<>>
    /\ closed = FALSE
    /\ produced = 2
    /\ caller = "send_call_tool"
    /\ site = "handle_tool_call"
    /\ sm = SmEntry("tools/call",
                    Some([name |-> "echo", arguments |-> [x |-> 1]]),
                    None, DefaultRetries)
    /\ outbound = <<init_message, initialized_notify,
                    SmEntry("tools/list", None, None, DefaultRetries).message,
                    sm.message>>
    /\ \E c \in Contents :
         /\ lastRecv = Some(JSONRPCMessage(Some("tools/call"), None, None,
                                           Some([content |-> c]), None))
         /\ smOut = Returned(Some(model_dump(lastRecv[1])))
         /\ callOut = Returned(Some([content |-> c]))
    /\ attempts = <<"response">>
    /\ sleeps = 0
    /\ hsOut = Returned(Some(model_validate(ValidInitResult)))
    /\ hsRead = << JSONRPCMessage(Some("init-1"), None, None,
                                  Some(ValidInitResult), None) >>
    /\ hsEnd = "ok"
    /\ command = None
    /\ cmd = "chat"
    /\ cmds = 1
    /\ printed = "Tool invoked"
    /\ should_continue = TRUE
    /\ conversation_history = << Turn("system", Some(SystemPrompt)),
                                 Turn("user", Some(<<Plain("hi")>>)) >>
    /\ openai_tools = convert_to_openai_tools(<<EchoTool>>)
    /\ completion = Some(Completion(None,
                       Some(<<StructuredCall("echo", "dict", [x |-> 1])>>)))
    /\ pending = completion[1].tool_calls[1]
    /\ tcall = Some([tool_name |-> "echo", tool_args |-> [x |-> 1]])
    /\ rounds = 1
    /\ completions = 1
    /\ messages = conversation_history
    /\ tasks = <<>>

NextFormat ==
    \/ ToolCallReturn
    \/ ToolLoopEnd

SpecFormat == InitFormat /\ [][NextFormat]_vars

\* str(block) of a block that is not text-typed
StrOfBlock(b) == "{'type': 'image', 'data': 'x'}"

\* what the claim expects of a list, block by block: the text of a text
\* block, the string conversion of any other block
ExpectedPieces(blocks) ==
    [i \in 1..Len(blocks) |->
        IF blocks[i].type = "text"
           THEN Plain(IF "text" \in DOMAIN blocks[i] THEN blocks[i].text
                      ELSE "No content")
        ELSE Plain(StrOfBlock(blocks[i]))]

\* the formatted string without the line breaks put between its pieces
WithoutBreaks(formatted) ==
    LET NoBreak(ch) == ch # Plain("\n") IN SelectSeq(formatted, NoBreak)

\* C25: the formatted content of a tool result is, for a list of blocks, the
\* texts of its text-typed blocks in order, with every block that is not
\* text-typed present by its string conversion; content that is not a list
\* is its string conversion.
C25_Step ==
    (InToolCallReturn /\ callOut.val # None
       /\ HasKey(callOut.val[1], "content"))
      => LET c == callOut.val[1].content
             formatted == Last(conversation_history').content[1] IN
         /\ Last(conversation_history').role = "tool"
         /\ IF HasKey(c, "list")
               THEN WithoutBreaks(formatted) = ExpectedPieces(c.list)
            ELSE formatted = <<Plain(c.repr)>>

C25_FormattingKeepsAllContent == [][C25_Step]_vars

----------------------------------------------------------------------------
(* The decision rule of send_initialize, checked under Spec *)

\* an Optional[dict] field that is present and not the empty object
Populated(field) == field # None /\ field[1] # EmptyDict

\* an inbound item that decides the handshake
Deciding(item) ==
    /\ ~IsException(item)
    /\ Populated(item.error) \/ Populated(item.result)

\* what send_initialize returns once `item` has decided
DecidedOutcome(item) ==
    IF Populated(item.error) THEN None
    ELSE IF InitializeResultValid(item.result[1])
    THEN Some(model_validate(item.result[1]))
    ELSE None

HandshakeOver == pc \notin {"main_start", "hs_wait", "hs_notify"}

\* C26: send_initialize is decided by the first inbound envelope with a
\* populated error or a non-empty result, whatever its id; exceptions and
\* envelopes with neither are passed over while it waits; without a deciding
\* envelope before the deadline or the end of the stream it returns None.
C26_FirstDecidingEnvelopeDecides ==
    /\ \A i \in 1..Len(hsRead) : Deciding(hsRead[i]) => i = Len(hsRead)
    /\ pc = "hs_wait"
          => /\ hsOut = NoOutcome
             /\ \A i \in 1..Len(hsRead) : ~Deciding(hsRead[i])
    /\ HandshakeOver
          => /\ hsOut.kind = "return"
             /\ IF hsRead # <<>> /\ Deciding(Last(hsRead))
                   THEN hsOut.val = DecidedOutcome(Last(hsRead))
                ELSE /\ hsOut.val = None
                     /\ hsEnd \in {"timeout", "eof"}

\* a reply with another id than init-1 decided after two items were skipped
C26_Witness ==
    /\ HandshakeOver
    /\ Len(hsRead) = 3
    /\ IsException(hsRead[1])
    /\ ~IsException(hsRead[2]) /\ hsRead[2].result = Some(EmptyDict)
    /\ hsRead[3].id = Some("other-7")
    /\ hsOut.val # None

----------------------------------------------------------------------------
(* The history over one round of tool calls, checked under SpecChat *)

\* a round has ended and the next create_completion is about to be called
RoundEnded ==
    pc = "completion" /\ completion # None /\ HasToolCalls(completion[1])

\* the turns the running round has appended so far
AppendedInRound ==
    SubSeq(conversation_history, Len(messages) + 1, Len(conversation_history))

\* during a round and at its end the history is the history the completion
\* was called with, followed by the turns of the invocations that succeeded:
\* pairs of an assistant turn of a call and the tool turn of its result
C27_Shape ==
    (InToolRound \/ RoundEnded)
        => /\ IsPrefix(messages, conversation_history)
           /\ Len(AppendedInRound) % 2 = 0
           /\ Len(AppendedInRound) <= 2 * Len(RoundCalls)
           /\ \A i \in 1..Len(AppendedInRound) :
                 AppendedInRound[i].role =
                    (IF i % 2 = 1 THEN "assistant" ELSE "tool")

C27_Step ==
    \* a round starts from the history the completion was called with
    /\ (pc = "completion" /\ pc' = "tool_loop")
          => messages' = conversation_history'
    /\ InToolRound
          => /\ messages' = messages
             \* only the return of an invocation that received a result
             \* which is no error extends the history
             /\ conversation_history' # conversation_history
                   => /\ InToolCallReturn
                      /\ ReceivedNonErrorResult
                      /\ IsPrefix(conversation_history, conversation_history')
             \* a skipped or failed invocation is left without a change
             /\ (pc = "tool_loop" /\ pending # <<>> /\ HeadCallUnresolvable)
                   => /\ conversation_history' = conversation_history
                      /\ pending' = Tail(pending)
             /\ (InToolCallReturn /\ ~ReceivedNonErrorResult)
                   => /\ conversation_history' = conversation_history
                      /\ pending' = Tail(pending)
    \* the completion after a round is called with the history as it is
    /\ (RoundEnded /\ completions' # completions)
          => /\ messages' = conversation_history
             /\ (AppendedInRound = <<>> => messages' = messages)

\* C27: a round of process_conversation in which every tool invocation is
\* skipped or fails leaves the conversation history as it was before the
\* round, and the next completion is called with the same history; a round
\* extends the history only by the turns of invocations that succeeded.
C27_FailedRoundKeepsHistory == []C27_Shape /\ [][C27_Step]_vars

\* a round of three calls has ended without a change of the history and the
\* completion is called again with the same messages
C27_Witness ==
    /\ RoundEnded
    /\ Len(RoundCalls) = 3
    /\ completions = 1
    /\ conversation_history = messages
    /\ Len(outbound) >= 5

=============================================================================
